---- MODULE Spec2Model ----
(***************************************************************************)
(* Model of mirror-match/scripts/build_plays_with_filters.py: the play     *)
(* aggregation pipeline (load_bdb_data, compute_coverage_tightness,        *)
(* compute_separation_at_target, get_field_zone, build_play_data,          *)
(* compute_tendencies, main).                                              *)
(*                                                                         *)
(* Representation.                                                         *)
(*   - A nullable value (NaN in a table, None in a record) is a sequence   *)
(*     of length at most one: <<>> is missing, <<v>> is the value v.       *)
(*   - Lengths (x, y, absolute_yardline_number) are integers in hundredths *)
(*     of a yard; a value rounded to one decimal is an integer in tenths.  *)
(*   - A float distance sqrt(d2) is represented exactly by its square d2   *)
(*     (in hundredths squared).                                            *)
(*   - A DataFrame is [cols, rows]: cols is FALSE for pd.DataFrame() (no   *)
(*     columns at all), rows is the set of its rows.  Tables are keyed by  *)
(*     (game_id, play_id, nfl_id, frame_id) and are read in that order, so *)
(*     "the first row" of a selection is its least row in that order.      *)
(*   - frame_id starts at 1 (frame 1 is the snap, build_plays_with_filters *)
(*     .py:65) and is a positive integer.                                  *)
(***************************************************************************)
EXTENDS Integers, Sequences, FiniteSets, TLC

VARIABLES
    entry,        \* the function the run entered: "main", "build_play_data",
                  \* "compute_tendencies", "get_field_zone", "load_bdb_data" or
                  \* "preprocess_data.main"
    pc,           \* position of the run
    files,        \* BDB_DIR: <<kind, week>> -> <<>> (no such file) or <<rows>>
    weeks,        \* the weeks load_bdb_data is asked for
    input_df,     \* pre-event tracking table
    output_df,    \* post-event tracking table
    nfl_df,       \* play-by-play metadata table
    i,            \* number of groups the loop over the plays has iterated over
    locals,       \* build_play_data's per-play local values of the last iteration
    plays,        \* the list of play records
    tendencies,   \* result of compute_tendencies: team -> rollup
    output_file,  \* plays_filtered.json: <<>> until written
    yardline,     \* argument of a direct get_field_zone call
    zone,         \* its result
    week          \* preprocess_data.main: the loop variable, 0 before the loop

vars == <<entry, pc, files, weeks, input_df, output_df, nfl_df, i, locals, plays,
          tendencies, output_file, yardline, zone, week>>

-----------------------------------------------------------------------------
(* Bounds of the model *)

\* largest frame_id of a tracking row
MaxFrame == 2
\* largest week a main run requests (build_plays_with_filters.main requests
\* range(1, 6), preprocess_data.main range(1, 4))
MaxWeek == 2
\* longest list of play records given to compute_tendencies
MaxRecords == 11
\* largest whole-yard field position given to get_field_zone
MaxYard == 60

(* Program constants *)

\* build_plays_with_filters.py:248  if len(team_plays) < 10: continue
MinTeamPlays == 10
\* build_plays_with_filters.py:110  if yardline <= 20  (in hundredths)
RedzoneMax == 2000
\* build_plays_with_filters.py:112  elif yardline <= 50  (in hundredths)
MidfieldMax == 5000

-----------------------------------------------------------------------------
(* Values *)

NaN == <<>>
None == <<>>
Some(v) == <<v>>
\* pd.isna / pd.notna
isna(v) == v = <<>>
notna(v) == v # <<>>
Val(v) == v[1]

Max(S) == CHOOSE m \in S : \A n \in S : n <= m
Min(S) == CHOOSE m \in S : \A n \in S : m <= n

RECURSIVE SumSeq(_)
SumSeq(s) == IF s = <<>> THEN 0 ELSE Head(s) + SumSeq(Tail(s))

\* round(v, 1) of a non-negative length in hundredths: the nearest tenth
round1(v) == (v + 5) \div 10

\* round(sqrt(d2), 1): the tenth r nearest to sqrt(d2) hundredths, that is
\* (10r - 5)^2 <= d2 < (10r + 5)^2
round1_sqrt(d2) ==
    CHOOSE r \in 0..(d2 + 1) :
        /\ (r = 0 \/ (10 * r - 5) * (10 * r - 5) <= d2)
        /\ d2 < (10 * r + 5) * (10 * r + 5)

\* int(v): truncation of a non-negative value in hundredths to whole units
int_hundredths(v) == v \div 100

\* Python truthiness of an optional float: None and 0.0 are falsy
truthy(v) == v # None /\ Val(v) # 0

-----------------------------------------------------------------------------
(* DataFrames *)

EmptyDataFrame == [cols |-> FALSE, rows |-> {}]
DataFrame(rows) == [cols |-> TRUE, rows |-> rows]
empty(df) == df.rows = {}

KeyOf(r) == <<r.game_id, r.play_id>>
KeyLess(a, b) == a[1] < b[1] \/ (a[1] = b[1] /\ a[2] < b[2])

\* df.groupby(['game_id', 'play_id']): the distinct keys, iterated in sorted order
GroupKeySet(df) == {KeyOf(r) : r \in df.rows}
RECURSIVE SortKeys(_)
SortKeys(S) ==
    IF S = {} THEN <<>>
    ELSE LET m == CHOOSE a \in S : \A b \in S \ {a} : KeyLess(a, b)
         IN  <<m>> \o SortKeys(S \ {m})
GroupKeys(df) == SortKeys(GroupKeySet(df))
get_group(df, k) == {r \in df.rows : KeyOf(r) = k}

\* table order within a play: by nfl_id, then frame_id
RowLess(a, b) == a.nfl_id < b.nfl_id \/ (a.nfl_id = b.nfl_id /\ a.frame_id < b.frame_id)
\* rows.iloc[0] / rows[col].values[0]
first_of(rows) == CHOOSE a \in rows : \A b \in rows \ {a} : RowLess(a, b)

\* rows.sort_values('frame_id') as a sequence
RECURSIVE sort_values_frame_id(_)
sort_values_frame_id(rows) ==
    IF rows = {} THEN <<>>
    ELSE LET m == CHOOSE a \in rows : \A b \in rows : a.frame_id <= b.frame_id
         IN  <<m>> \o sort_values_frame_id(rows \ {m})

\* the nfl_ids of a selection, in groupby('nfl_id') order
RECURSIVE SortInts(_)
SortInts(S) == IF S = {} THEN <<>> ELSE <<Min(S)>> \o SortInts(S \ {Min(S)})

-----------------------------------------------------------------------------
(* Per-play metrics *)

Dist2(r, tx, ty) == (r.x - tx) * (r.x - tx) + (r.y - ty) * (r.y - ty)

\* frame_metric measuring from the last targeted-receiver row instead of the first
frame_metric_last_target(frame_rows) ==
    LET target == {r \in frame_rows : r.player_role = "Targeted Receiver"}
        dbs == {r \in frame_rows : r.player_side = "Defense"}
        last == CHOOSE a \in target : \A b \in target \ {a} : RowLess(b, a)
    IN  IF target = {} THEN None
        ELSE IF dbs = {} THEN None
        ELSE Some(Min({Dist2(r, last.x, last.y) : r \in dbs}))

\* the metric of one frame's rows: lines 70-84 and 93-104
frame_metric(frame_rows) ==
    LET target == {r \in frame_rows : r.player_role = "Targeted Receiver"}
        dbs == {r \in frame_rows : r.player_side = "Defense"}
    IN  IF target = {} THEN None
        ELSE IF dbs = {} THEN None
        ELSE LET target_x == first_of(target).x
                 target_y == first_of(target).y
             IN  Some(Min({Dist2(r, target_x, target_y) : r \in dbs}))

compute_coverage_tightness(play_df) ==
    frame_metric({r \in play_df : r.frame_id = 1})

\* compute_separation_at_target on frame 1, as compute_coverage_tightness
compute_separation_at_snap(play_df) ==
    frame_metric({r \in play_df : r.frame_id = 1})

compute_separation_at_target(play_df) ==
    LET max_frame == Max({r.frame_id : r \in play_df})
    IN  frame_metric({r \in play_df : r.frame_id = max_frame})

\* get_field_zone with strict comparisons at the zone boundaries
get_field_zone_strict(yl) ==
    IF isna(yl) THEN "unknown"
    ELSE IF Val(yl) < RedzoneMax THEN "redzone"
    ELSE IF Val(yl) < MidfieldMax THEN "midfield"
    ELSE "own_territory"

get_field_zone(yl) ==
    IF isna(yl) THEN "unknown"
    ELSE IF Val(yl) <= RedzoneMax THEN "redzone"
    ELSE IF Val(yl) <= MidfieldMax THEN "midfield"
    ELSE "own_territory"

-----------------------------------------------------------------------------
(* build_play_data: one play record *)

\* line 164-169: a pre-event frame sample
input_frame(row) ==
    [f |-> row.frame_id,
     x |-> round1(row.x),
     y |-> round1(row.y),
     s |-> IF notna(row.s) THEN round1(Val(row.s)) ELSE 0]

\* output_frame without the offset of line 176
output_frame_unshifted(row, max_input_frame) ==
    [f |-> row.frame_id,
     x |-> round1(row.x),
     y |-> round1(row.y),
     s |-> 0]

\* line 175-180: a post-event frame sample, its index offset by the play's
\* maximum pre-event frame index
output_frame(row, max_input_frame) ==
    [f |-> row.frame_id + max_input_frame,
     x |-> round1(row.x),
     y |-> round1(row.y),
     s |-> 0]

\* lines 147-152: output_grouped.get_group((game_id, play_id)); KeyError when no
\* group has the key, AttributeError when output_grouped is the dict {}
has_output_group(k) == ~empty(output_df) /\ k \in GroupKeySet(output_df)
output_group(k) == IF has_output_group(k) THEN get_group(output_df, k) ELSE {}

\* player_frames with the post-event frames offset by the player's own last
\* pre-event frame index instead of the play's
player_frames_own_offset(nfl_id, input_play_df, output_play_df, has_output, max_input_frame) ==
    LET player_input_df == sort_values_frame_id({r \in input_play_df : r.nfl_id = nfl_id})
        player_output_df ==
            IF has_output /\ nfl_id \in {r.nfl_id : r \in output_play_df}
            THEN sort_values_frame_id({r \in output_play_df : r.nfl_id = nfl_id})
            ELSE <<>>
        own_last == player_input_df[Len(player_input_df)].frame_id
    IN  [j \in 1..Len(player_input_df) |-> input_frame(player_input_df[j])]
        \o [j \in 1..Len(player_output_df) |->
                output_frame(player_output_df[j], own_last)]

\* lines 157-180: the merged frame sequence of one player
player_frames(nfl_id, input_play_df, output_play_df, has_output, max_input_frame) ==
    LET player_input_df == sort_values_frame_id({r \in input_play_df : r.nfl_id = nfl_id})
        player_output_df ==
            IF has_output /\ nfl_id \in {r.nfl_id : r \in output_play_df}
            THEN sort_values_frame_id({r \in output_play_df : r.nfl_id = nfl_id})
            ELSE <<>>
    IN  [j \in 1..Len(player_input_df) |-> input_frame(player_input_df[j])]
        \o [j \in 1..Len(player_output_df) |->
                output_frame(player_output_df[j], max_input_frame)]

\* lines 156-190: one entry of the players list
build_player(nfl_id, input_play_df, output_play_df, has_output, max_input_frame) ==
    LET first_player == first_of({r \in input_play_df : r.nfl_id = nfl_id})
    IN  [nflId |-> nfl_id,
         side |-> first_player.player_side,
         role |-> first_player.player_role,
         team |-> IF first_player.player_side = "Offense" THEN "away" ELSE "home",
         frames |-> player_frames(nfl_id, input_play_df, output_play_df,
                                  has_output, max_input_frame)]

build_players(input_play_df, output_play_df, has_output, max_input_frame) ==
    LET ids == SortInts({r.nfl_id : r \in input_play_df})
    IN  [j \in 1..Len(ids) |->
            build_player(ids[j], input_play_df, output_play_df, has_output,
                         max_input_frame)]

\* line 193
max_output_frame_of(has_output, output_play_df) ==
    IF has_output /\ output_play_df # {}
    THEN Max({r.frame_id : r \in output_play_df})
    ELSE 0

\* total_frames_of as the larger of the two maxima instead of their sum
total_frames_larger(max_input_frame, max_output_frame) ==
    IF max_input_frame > max_output_frame THEN max_input_frame ELSE max_output_frame

\* line 194
total_frames_of(max_input_frame, max_output_frame) ==
    max_input_frame + max_output_frame

\* lines 209-210: round(m, 1) if m else None
metric_field(m) == IF truthy(m) THEN Some(round1_sqrt(Val(m))) ELSE None

\* metadata_block with the quarter's default of 1 given to down as well
metadata_block_down_one(nfl_row) ==
    [down |-> IF notna(nfl_row.down) THEN Val(nfl_row.down) ELSE 1,
     yardsToGo |-> IF notna(nfl_row.ydstogo) THEN Val(nfl_row.ydstogo) ELSE 0,
     playType |-> IF notna(nfl_row.play_type) THEN Val(nfl_row.play_type) ELSE "unknown",
     yardsGained |-> IF notna(nfl_row.yards_gained) THEN Val(nfl_row.yards_gained) ELSE 0,
     shotgun |-> IF notna(nfl_row.shotgun) THEN Val(nfl_row.shotgun) # 0 ELSE FALSE,
     passLength |-> IF notna(nfl_row.pass_length) THEN nfl_row.pass_length ELSE None,
     passLocation |-> IF notna(nfl_row.pass_location) THEN nfl_row.pass_location ELSE None,
     offense |-> IF notna(nfl_row.posteam) THEN Val(nfl_row.posteam) ELSE "UNK",
     defense |-> IF notna(nfl_row.defteam) THEN Val(nfl_row.defteam) ELSE "UNK",
     quarter |-> IF notna(nfl_row.qtr) THEN Val(nfl_row.qtr) ELSE 1,
     description |-> IF notna(nfl_row.desc) THEN Val(nfl_row.desc) ELSE ""]

\* lines 216-227: the metadata keys of a record, from the matching nfl_df row
metadata_block(nfl_row) ==
    [down |-> IF notna(nfl_row.down) THEN Val(nfl_row.down) ELSE 0,
     yardsToGo |-> IF notna(nfl_row.ydstogo) THEN Val(nfl_row.ydstogo) ELSE 0,
     playType |-> IF notna(nfl_row.play_type) THEN Val(nfl_row.play_type) ELSE "unknown",
     yardsGained |-> IF notna(nfl_row.yards_gained) THEN Val(nfl_row.yards_gained) ELSE 0,
     shotgun |-> IF notna(nfl_row.shotgun) THEN Val(nfl_row.shotgun) # 0 ELSE FALSE,
     passLength |-> IF notna(nfl_row.pass_length) THEN nfl_row.pass_length ELSE None,
     passLocation |-> IF notna(nfl_row.pass_location) THEN nfl_row.pass_location ELSE None,
     offense |-> IF notna(nfl_row.posteam) THEN Val(nfl_row.posteam) ELSE "UNK",
     defense |-> IF notna(nfl_row.defteam) THEN Val(nfl_row.defteam) ELSE "UNK",
     quarter |-> IF notna(nfl_row.qtr) THEN Val(nfl_row.qtr) ELSE 1,
     description |-> IF notna(nfl_row.desc) THEN Val(nfl_row.desc) ELSE ""]

MetadataKeys ==
    {"down", "yardsToGo", "playType", "yardsGained", "shotgun", "passLength",
     "passLocation", "offense", "defense", "quarter", "description"}

\* line 134: the nfl_df rows of a play
nfl_play_of(k) == {m \in nfl_df : KeyOf(m) = k}
first_meta(rows) == CHOOSE m \in rows : TRUE

\* lines 137-152: the local values of one iteration
play_locals(k) ==
    LET input_play_df == get_group(input_df, k)
    IN  [key |-> k,
         coverage_tightness |-> compute_coverage_tightness(input_play_df),
         separation |-> compute_separation_at_target(input_play_df),
         max_input_frame |-> Max({r.frame_id : r \in input_play_df}),
         has_output |-> has_output_group(k)]

NoLocals ==
    [key |-> <<0, 0>>, coverage_tightness |-> None, separation |-> None,
     max_input_frame |-> 0, has_output |-> FALSE]

\* lines 197-227: the play object of key k
play_obj(k) ==
    LET input_play_df == get_group(input_df, k)
        first_row == first_of(input_play_df)
        l == play_locals(k)
        output_play_df == output_group(k)
        max_output_frame == max_output_frame_of(l.has_output, output_play_df)
        base ==
            [gameId |-> k[1],
             playId |-> k[2],
             yardline |-> int_hundredths(Val(first_row.absolute_yardline_number)),
             numFrames |-> total_frames_of(l.max_input_frame, max_output_frame),
             numInputFrames |-> l.max_input_frame,
             numOutputFrames |-> IF l.has_output THEN max_output_frame ELSE 0,
             players |-> build_players(input_play_df, output_play_df, l.has_output,
                                       l.max_input_frame),
             coverageTightness |-> metric_field(l.coverage_tightness),
             separation |-> metric_field(l.separation),
             fieldZone |-> get_field_zone(first_row.absolute_yardline_number)]
    IN  IF nfl_play_of(k) # {}
        THEN metadata_block(first_meta(nfl_play_of(k))) @@ base
        ELSE base

\* line 201: int(first_row['absolute_yardline_number']) raises ValueError on NaN
play_obj_raises(k) ==
    isna(first_of(get_group(input_df, k)).absolute_yardline_number)

-----------------------------------------------------------------------------
(* compute_tendencies *)

\* play.get(key, default)
get(play, key, default) == IF key \in DOMAIN play THEN play[key] ELSE default

\* line 241
team_of(play) == get(play, "offense", "UNK")

\* lines 239-244: teams[team], the team's records in list order
team_plays_of(ps, team) == SelectSeq(ps, LAMBDA p : team_of(p) = team)

\* retained with the threshold test len(team_plays) <= 10
retained_above(ps, team) == ~(Len(team_plays_of(ps, team)) <= MinTeamPlays)

\* line 248: the teams kept
retained(ps, team) == ~(Len(team_plays_of(ps, team)) < MinTeamPlays)

\* lines 251-252: the number of the team's records of a play type (a record
\* without the key has p.get('playType') = None, here "", which equals no type)
count_type(team_plays, type) ==
    Len(SelectSeq(team_plays, LAMBDA p : get(p, "playType", "") = type))

\* rate over the team's pass and run plays only
rate_of_pass_and_run(count, team_plays) ==
    [num |-> count,
     den |-> count_type(team_plays, "pass") + count_type(team_plays, "run")]

\* lines 257-258: a rate is the pair numerator / denominator
rate(count, team_plays) == [num |-> count, den |-> Len(team_plays)]

\* average coverage with every record of the team in the denominator
avg_coverage_over_all(team_plays) ==
    LET covered == SelectSeq(team_plays,
                             LAMBDA p : truthy(get(p, "coverageTightness", None)))
    IN  [num |-> SumSeq([j \in 1..Len(covered) |-> Val(covered[j].coverageTightness)]),
         den |-> IF Len(team_plays) > 1 THEN Len(team_plays) ELSE 1]

\* line 260
avg_coverage(team_plays) ==
    LET covered == SelectSeq(team_plays,
                             LAMBDA p : truthy(get(p, "coverageTightness", None)))
    IN  [num |-> SumSeq([j \in 1..Len(covered) |-> Val(covered[j].coverageTightness)]),
         den |-> IF Len(covered) > 1 THEN Len(covered) ELSE 1]

\* lines 251-262
rollup(team_plays) ==
    [totalPlays |-> Len(team_plays),
     passRate |-> rate(count_type(team_plays, "pass"), team_plays),
     runRate |-> rate(count_type(team_plays, "run"), team_plays),
     avgYards |-> [num |-> SumSeq([j \in 1..Len(team_plays) |->
                                       get(team_plays[j], "yardsGained", 0)]),
                   den |-> Len(team_plays)],
     avgCoverage |-> avg_coverage(team_plays)]

compute_tendencies(ps) ==
    LET teams == {team_of(ps[j]) : j \in 1..Len(ps)}
    IN  [team \in {t \in teams : retained(ps, t)} |-> rollup(team_plays_of(ps, team))]

-----------------------------------------------------------------------------
(* load_bdb_data *)

Weeks == 1..MaxWeek
FileNames == {"input", "output"} \X Weeks
exists(kind, w) == files[<<kind, w>>] # <<>>

\* lines 36-38, 44-46: pd.read_csv, then df['week'] = week
read_csv(kind, w) == {r @@ [week |-> w] : r \in files[<<kind, w>>][1]}

\* lines 31-49 for one kind of file: the tables found, concatenated
load_kind(kind, requested) ==
    LET found == {w \in requested : exists(kind, w)}
    IN  IF found # {}
        THEN DataFrame(UNION {read_csv(kind, w) : w \in found})
        ELSE EmptyDataFrame

-----------------------------------------------------------------------------
(* preprocess_data: the sampling pipeline *)

\* round(v, 0) of a non-negative value in hundredths: the nearest whole unit,
\* a tie going to the even one
round0(v) ==
    LET q == v \div 100
        r == v % 100
    IN  IF r < 50 THEN q
        ELSE IF r > 50 THEN q + 1
        ELSE IF q % 2 = 0 THEN q ELSE q + 1

\* load_week_data(week_num), lines 16-28; None is the table without columns
load_week_data(week_num) ==
    IF ~exists("input", week_num)
    THEN [input_df |-> EmptyDataFrame, output_df |-> EmptyDataFrame]
    ELSE [input_df |-> DataFrame(files[<<"input", week_num>>][1]),
          output_df |-> IF exists("output", week_num)
                        THEN DataFrame(files[<<"output", week_num>>][1])
                        ELSE EmptyDataFrame]

\* lines 44-50: one frame sample
sample_frame(row) ==
    [f |-> row.frame_id,
     x |-> round1(row.x),
     y |-> round1(row.y),
     s |-> IF notna(row.s) THEN round1(Val(row.s)) ELSE 0,
     d |-> IF notna(row.dir) THEN round0(Val(row.dir)) ELSE 0]

\* lines 37-59: one entry of the players list
sample_player(nfl_id, play_df) ==
    LET player_df == sort_values_frame_id({r \in play_df : r.nfl_id = nfl_id})
        first_player_row == player_df[1]
    IN  [nflId |-> nfl_id,
         name |-> first_player_row.player_name,
         position |-> first_player_row.player_position,
         side |-> first_player_row.player_side,
         role |-> first_player_row.player_role,
         frames |-> [j \in 1..Len(player_df) |-> sample_frame(player_df[j])]]

\* lines 65, 68: int() of a NaN raises ValueError
process_play_raises(play_df) ==
    \/ isna(first_of(play_df).absolute_yardline_number)
    \/ isna(first_of(play_df).num_frames_output)

\* process_play(play_df), lines 30-70, when it does not raise
process_play(play_df) ==
    LET first_row == first_of(play_df)
        ids == SortInts({r.nfl_id : r \in play_df})
    IN  [gameId |-> first_row.game_id,
         playId |-> first_row.play_id,
         direction |-> first_row.play_direction,
         yardline |-> int_hundredths(Val(first_row.absolute_yardline_number)),
         ballLandX |-> IF notna(first_row.ball_land_x)
                       THEN Some(round1(Val(first_row.ball_land_x))) ELSE None,
         ballLandY |-> IF notna(first_row.ball_land_y)
                       THEN Some(round1(Val(first_row.ball_land_y))) ELSE None,
         numFrames |-> int_hundredths(Val(first_row.num_frames_output)),
         players |-> [j \in 1..Len(ids) |-> sample_player(ids[j], play_df)]]

\* the loop position after an iteration that raised, were line 93 a break
break_at(done, ngroups) == ngroups

\* lines 91-93: except ... continue; the loop goes on with the next group
continue_at(done, ngroups) == done + 1

\* line 107: all_plays[:20]
SampleSize == 20
sample_plays(all_plays) ==
    SubSeq(all_plays, 1, IF Len(all_plays) < SampleSize THEN Len(all_plays)
                         ELSE SampleSize)

-----------------------------------------------------------------------------
(* Inputs: the tables, files and lists a run starts from *)

Role(kind) ==
    CASE kind = "TR" -> "Targeted Receiver"
      [] kind = "DEF" -> "Defensive Coverage"
      [] OTHER -> "Other Route Runner"
Side(kind) == IF kind = "DEF" THEN "Defense" ELSE "Offense"

PreRow(k, p, f, pos, kind, yl) ==
    [game_id |-> k[1], play_id |-> k[2], nfl_id |-> p, frame_id |-> f,
     x |-> pos[1], y |-> pos[2], s |-> IF p = 1 THEN Some(512) ELSE NaN,
     player_role |-> Role(kind), player_side |-> Side(kind),
     absolute_yardline_number |-> yl, week |-> 1]

PostRow(k, p, f, pos) ==
    [game_id |-> k[1], play_id |-> k[2], nfl_id |-> p, frame_id |-> f,
     x |-> pos[1], y |-> pos[2], week |-> 1]

MetaCols ==
    {"down", "ydstogo", "play_type", "yards_gained", "shotgun", "pass_length",
     "pass_location", "posteam", "defteam", "qtr", "desc"}

FullMeta ==
    [down |-> Some(3), ydstogo |-> Some(7), play_type |-> Some("pass"),
     yards_gained |-> Some(12), shotgun |-> Some(1), pass_length |-> Some("short"),
     pass_location |-> Some("left"), posteam |-> Some("KC"), defteam |-> Some("DET"),
     qtr |-> Some(4), desc |-> Some("pass short left")]

\* the nfl_df row of key k whose columns in `missing` are NaN
MetaRow(k, missing) ==
    [game_id |-> k[1], play_id |-> k[2]]
    @@ [c \in MetaCols |-> IF c \in missing THEN NaN ELSE FullMeta[c]]

K1 == <<1, 2>>
K2 == <<2, 1>>
K3 == <<2, 2>>

PosA == <<1000, 2000>>
PosB == <<1004, 2000>>
PosC == <<1300, 2400>>
Positions == {PosA, PosB, PosC}
\* where a player stands when the run does not vary positions
FixedPos(p, f) == <<1000 + 104 * f, 2000 + 300 * p>>

Frames == 1..MaxFrame

Idle ==
    /\ files = [n \in FileNames |-> <<>>]
    /\ weeks = {}
    /\ i = 0
    /\ locals = NoLocals
    /\ tendencies = <<>>
    /\ output_file = <<>>
    /\ yardline = NaN
    /\ zone = ""
    /\ week = 0

\* build_play_data on one play whose players' frame sets vary: players 1 (the
\* target) and 2 (a defender) in the pre-event table, players 1, 2 and 3 in the
\* post-event table
InitFrames ==
    \E pf \in [1..2 -> SUBSET Frames], qf \in [1..2 -> SUBSET Frames],
       extra \in BOOLEAN, yl \in {Some(3500), NaN} :
        /\ \E p \in 1..2 : pf[p] # {}
        /\ entry = "build_play_data"
        /\ pc = "build"
        /\ input_df = DataFrame({PreRow(K1, p, f, FixedPos(p, f),
                                        IF p = 1 THEN "TR" ELSE "DEF", yl) :
                                 <<p, f>> \in {c \in (1..2) \X Frames : c[2] \in pf[c[1]]}})
        /\ output_df =
             LET rows == {PostRow(K1, p, f, FixedPos(p, f + MaxFrame)) :
                          <<p, f>> \in {c \in (1..2) \X Frames : c[2] \in qf[c[1]]}}
                         \cup (IF extra THEN {PostRow(K1, 3, MaxFrame, PosC)} ELSE {})
             IN  IF rows = {} THEN EmptyDataFrame ELSE DataFrame(rows)
        /\ nfl_df = {}
        /\ plays = <<>>
        /\ Idle

\* build_play_data on one play of two frames whose players' roles and positions
\* vary; the play's first frame is frame 1 or frame 2
InitMetrics ==
    \E k1 \in {"TR", "absent"}, k2 \in {"TR", "DEF", "absent"}, k3 \in {"DEF", "absent"},
       first \in 1..2, pos1 \in [1..3 -> Positions], pos2 \in [1..3 -> Positions] :
        LET kind == <<k1, k2, k3>>
            present == {p \in 1..3 : kind[p] # "absent"}
        IN  /\ present # {}
            /\ \A p \in (1..3) \ present : pos1[p] = PosA /\ pos2[p] = PosA
            /\ entry = "build_play_data"
            /\ pc = "build"
            /\ input_df = DataFrame(
                 {PreRow(K1, p, first, pos1[p], kind[p], Some(1500)) : p \in present}
                 \cup {PreRow(K1, p, first + 1, pos2[p], kind[p], Some(1500)) : p \in present})
            /\ output_df = EmptyDataFrame
            /\ nfl_df = {}
            /\ plays = <<>>
            /\ Idle

PosOrigin == <<0, 0>>
PosNear == <<300, 0>>
PosFar == <<550, 0>>

\* build_play_data on one play of two frames with the target at (0, 0) and two
\* defenders at distances 3.0 and 5.5 in the first frame, 5.5 and 5.5 in the
\* last; the play's first frame is frame 1 or frame 2
InitExample ==
    \E first \in 1..2, near \in 2..3 :
        /\ entry = "build_play_data"
        /\ pc = "build"
        /\ input_df = DataFrame(
             {PreRow(K1, 1, f, PosOrigin, "TR", Some(1500)) : f \in {first, first + 1}}
             \cup {PreRow(K1, p, first, IF p = near THEN PosNear ELSE PosFar, "DEF",
                          Some(1500)) : p \in 2..3}
             \cup {PreRow(K1, p, first + 1, PosFar, "DEF", Some(1500)) : p \in 2..3})
        /\ output_df = EmptyDataFrame
        /\ nfl_df = {}
        /\ plays = <<>>
        /\ Idle

PlayVariants == {"absent"} \cup ({"full", "no_target", "no_defender"} \X {Some(2000), NaN})

VariantRows(k, v) ==
    IF v = "absent" THEN {}
    ELSE (IF v[1] # "no_target" THEN {PreRow(k, 1, 1, PosA, "TR", v[2])} ELSE {})
         \cup (IF v[1] # "no_defender" THEN {PreRow(k, 2, 1, PosC, "DEF", v[2])} ELSE {})

\* build_play_data on tables whose keys vary: which plays the pre-event table
\* holds, which have a post-event group, which have a metadata row
InitKeys ==
    \/ \E v1 \in PlayVariants, v2 \in PlayVariants,
          post \in SUBSET {K1, K3}, meta \in SUBSET {K1, K2} :
        /\ entry = "build_play_data"
        /\ pc = "build"
        /\ input_df = DataFrame(VariantRows(K1, v1) \cup VariantRows(K2, v2))
        /\ output_df = IF post = {} THEN EmptyDataFrame
                       ELSE DataFrame({PostRow(k, 1, 1, PosB) : k \in post})
        /\ nfl_df = {MetaRow(k, {}) : k \in meta}
        /\ plays = <<>>
        /\ Idle
    \/ /\ entry = "build_play_data"
       /\ pc = "build"
       /\ input_df = EmptyDataFrame
       /\ output_df = EmptyDataFrame
       /\ nfl_df = {}
       /\ plays = <<>>
       /\ Idle

\* build_play_data on one play whose metadata row has any set of columns missing
InitMetadata ==
    \E missing \in SUBSET MetaCols :
        /\ entry = "build_play_data"
        /\ pc = "build"
        /\ input_df = DataFrame(VariantRows(K1, <<"full", Some(5001)>>))
        /\ output_df = EmptyDataFrame
        /\ nfl_df = {MetaRow(K1, missing)}
        /\ plays = <<>>
        /\ Idle

\* the play records compute_tendencies is given, by the keys it reads
RecordKinds ==
    <<[offense |-> "KC", playType |-> "pass", yardsGained |-> 7,
       coverageTightness |-> Some(31)],
      [offense |-> "KC", playType |-> "run", yardsGained |-> 3,
       coverageTightness |-> None],
      [offense |-> "KC", playType |-> "punt", yardsGained |-> 0,
       coverageTightness |-> Some(0)],
      [coverageTightness |-> Some(50)],
      [offense |-> "UNK", playType |-> "pass", yardsGained |-> 5,
       coverageTightness |-> Some(20)]>>

RECURSIVE Repeat(_, _)
Repeat(rec, n) == IF n = 0 THEN <<>> ELSE <<rec>> \o Repeat(rec, n - 1)

RECURSIVE RecordList(_, _)
RecordList(counts, t) ==
    IF t > Len(RecordKinds) THEN <<>>
    ELSE Repeat(RecordKinds[t], counts[t]) \o RecordList(counts, t + 1)

\* compute_tendencies on a list of up to MaxRecords records
InitTendencies ==
    \E n1 \in 0..MaxRecords :
     \E n2 \in 0..(MaxRecords - n1) :
      \E n3 \in 0..(MaxRecords - n1 - n2) :
       \E n4 \in 0..(MaxRecords - n1 - n2 - n3) :
        \E n5 \in 0..(MaxRecords - n1 - n2 - n3 - n4) :
            /\ entry = "compute_tendencies"
            /\ pc = "tend"
            /\ input_df = EmptyDataFrame
            /\ output_df = EmptyDataFrame
            /\ nfl_df = {}
            /\ plays = RecordList(<<n1, n2, n3, n4, n5>>, 1)
            /\ Idle

\* get_field_zone on a field position: missing, a whole yard, or a hundredth past it
InitFieldZone ==
    \E yl \in {NaN} \cup {Some(100 * y + c) : y \in 0..MaxYard, c \in {0, 1}} :
        /\ entry = "get_field_zone"
        /\ pc = "zone"
        /\ files = [n \in FileNames |-> <<>>]
        /\ weeks = {}
        /\ input_df = EmptyDataFrame
        /\ output_df = EmptyDataFrame
        /\ nfl_df = {}
        /\ i = 0
        /\ locals = NoLocals
        /\ plays = <<>>
        /\ tendencies = <<>>
        /\ output_file = <<>>
        /\ yardline = yl
        /\ zone = ""
        /\ week = 0

\* the rows of a week's files as read_csv returns them (no week column yet)
WeekInput(w) ==
    {[c \in DOMAIN r \ {"week"} |-> r[c]] :
     r \in {PreRow(<<w, 1>>, 1, 1, PosA, "TR", Some(2000)),
            PreRow(<<w, 1>>, 2, 1, PosC, "DEF", Some(2000))}}
WeekOutput(w) ==
    {[c \in DOMAIN r \ {"week"} |-> r[c]] : r \in {PostRow(<<w, 1>>, 1, 1, PosB)}}

FileContents(n) ==
    {<<>>, <<{}>>, <<IF n[1] = "input" THEN WeekInput(n[2]) ELSE WeekOutput(n[2])>>}

\* main, or load_bdb_data alone for any requested weeks, on a directory where each
\* file is missing, holds a header only, or holds the week's rows
InitFiles ==
    \E fs \in [FileNames -> UNION {FileContents(n) : n \in FileNames}],
       e \in {"main", "load_bdb_data"}, ws \in SUBSET Weeks :
        /\ \A n \in FileNames : fs[n] \in FileContents(n)
        /\ e = "main" => ws = Weeks
        /\ entry = e
        /\ pc = "load"
        /\ files = fs
        /\ weeks = ws
        /\ input_df = EmptyDataFrame
        /\ output_df = EmptyDataFrame
        /\ nfl_df = {MetaRow(<<1, 1>>, {})}
        /\ i = 0
        /\ locals = NoLocals
        /\ plays = <<>>
        /\ tendencies = <<>>
        /\ output_file = <<>>
        /\ yardline = NaN
        /\ zone = ""
        /\ week = 0

\* a row of input_2023_wNN.csv with the columns process_play reads
SampleRow(k, p, f, yl, nf) ==
    [game_id |-> k[1], play_id |-> k[2], nfl_id |-> p, frame_id |-> f,
     x |-> FixedPos(p, f)[1], y |-> FixedPos(p, f)[2],
     s |-> IF p = 1 THEN Some(512) ELSE NaN,
     dir |-> IF p = 1 THEN Some(9050) ELSE NaN,
     player_name |-> IF p = 1 THEN "receiver" ELSE "defender",
     player_position |-> IF p = 1 THEN "WR" ELSE "CB",
     player_side |-> Side(IF p = 1 THEN "TR" ELSE "DEF"),
     player_role |-> Role(IF p = 1 THEN "TR" ELSE "DEF"),
     play_direction |-> "left",
     absolute_yardline_number |-> yl,
     ball_land_x |-> Some(4512), ball_land_y |-> NaN,
     num_frames_output |-> nf]

\* what a week's file holds of a play: nothing, a complete play, a play without
\* field position, a play without num_frames_output
SampleVariants == {"absent", "full", "no_yardline", "no_num_frames"}
SamplePlayRows(k, variant) ==
    IF variant = "absent" THEN {}
    ELSE LET yl == IF variant = "no_yardline" THEN NaN ELSE Some(3500)
             nf == IF variant = "no_num_frames" THEN NaN ELSE Some(300)
         IN  {SampleRow(k, 1, 1, yl, nf), SampleRow(k, 1, 2, yl, nf),
              SampleRow(k, 2, 1, yl, nf)}

\* preprocess_data.main on a directory where each week's input file is missing
\* or holds up to two plays of the week's game, each in any variant
InitPreprocess ==
    \E present \in SUBSET Weeks, with_output \in BOOLEAN,
       v1 \in [Weeks -> SampleVariants], v2 \in [Weeks -> SampleVariants] :
        /\ \A w \in Weeks \ present : v1[w] = "absent" /\ v2[w] = "absent"
        /\ entry = "preprocess_data.main"
        /\ pc = "pre_week"
        /\ files = [n \in FileNames |->
                      IF n[1] = "input"
                      THEN IF n[2] \in present
                           THEN <<SamplePlayRows(<<n[2], 1>>, v1[n[2]])
                                    \cup SamplePlayRows(<<n[2], 2>>, v2[n[2]])>>
                           ELSE <<>>
                      ELSE IF with_output THEN <<WeekOutput(n[2])>> ELSE <<>>]
        /\ weeks = Weeks
        /\ input_df = EmptyDataFrame
        /\ output_df = EmptyDataFrame
        /\ nfl_df = {}
        /\ i = 0
        /\ locals = NoLocals
        /\ plays = <<>>
        /\ tendencies = <<>>
        /\ output_file = <<>>
        /\ yardline = NaN
        /\ zone = ""
        /\ week = 0

Init ==
    \/ InitFiles
    \/ InitFrames
    \/ InitMetrics
    \/ InitExample
    \/ InitKeys
    \/ InitMetadata
    \/ InitTendencies
    \/ InitFieldZone
    \/ InitPreprocess

-----------------------------------------------------------------------------
(* Actions *)

\* load_bdb_data(weeks), lines 26-51
LoadBdbData ==
    /\ pc = "load"
    /\ input_df' = load_kind("input", weeks)
    /\ output_df' = load_kind("output", weeks)
    /\ pc' = IF entry = "main" THEN "main" ELSE "done"
    /\ UNCHANGED <<entry, files, weeks, nfl_df, i, locals, plays, tendencies,
                   output_file, yardline, zone, week>>

\* main, line 271: input_df.groupby(['game_id', 'play_id']).ngroups
MainCount ==
    /\ pc = "main"
    /\ input_df.cols
    /\ pc' = "build"
    /\ UNCHANGED <<entry, files, weeks, input_df, output_df, nfl_df, i, locals, plays,
                   tendencies, output_file, yardline, zone, week>>

\* main, line 271: KeyError 'game_id' on a DataFrame without columns
MainCountRaise ==
    /\ pc = "main"
    /\ ~input_df.cols
    /\ pc' = "failed"
    /\ UNCHANGED <<entry, files, weeks, input_df, output_df, nfl_df, i, locals, plays,
                   tendencies, output_file, yardline, zone, week>>

\* build_play_data, lines 119-127
BuildGroupby ==
    /\ pc = "build"
    /\ input_df.cols
    /\ pc' = "loop"
    /\ i' = 0
    /\ plays' = <<>>
    /\ UNCHANGED <<entry, files, weeks, input_df, output_df, nfl_df, locals,
                   tendencies, output_file, yardline, zone, week>>

\* build_play_data, line 122: KeyError 'game_id' on a DataFrame without columns
BuildGroupbyRaise ==
    /\ pc = "build"
    /\ ~input_df.cols
    /\ pc' = "failed"
    /\ UNCHANGED <<entry, files, weeks, input_df, output_df, nfl_df, i, locals, plays,
                   tendencies, output_file, yardline, zone, week>>

\* build_play_data, lines 129-229: one iteration of the loop over the groups
BuildPlay ==
    /\ pc = "loop"
    /\ i < Len(GroupKeys(input_df))
    /\ LET k == GroupKeys(input_df)[i + 1]
       IN  /\ ~play_obj_raises(k)
           /\ locals' = play_locals(k)
           /\ plays' = Append(plays, play_obj(k))
    /\ i' = i + 1
    /\ UNCHANGED <<entry, pc, files, weeks, input_df, output_df, nfl_df, tendencies,
                   output_file, yardline, zone, week>>

\* build_play_data, line 201: the iteration raises ValueError and the function's
\* list is lost with it
BuildRaise ==
    /\ pc = "loop"
    /\ i < Len(GroupKeys(input_df))
    /\ LET k == GroupKeys(input_df)[i + 1]
       IN  /\ play_obj_raises(k)
           /\ locals' = play_locals(k)
    /\ plays' = <<>>
    /\ pc' = "failed"
    /\ UNCHANGED <<entry, files, weeks, input_df, output_df, nfl_df, i, tendencies,
                   output_file, yardline, zone, week>>

\* build_play_data, line 231
BuildReturn ==
    /\ pc = "loop"
    /\ i = Len(GroupKeys(input_df))
    /\ pc' = IF entry = "main" THEN "tend" ELSE "done"
    /\ UNCHANGED <<entry, files, weeks, input_df, output_df, nfl_df, i, locals, plays,
                   tendencies, output_file, yardline, zone, week>>

\* compute_tendencies(plays), lines 233-264
ComputeTendencies ==
    /\ pc = "tend"
    /\ tendencies' = compute_tendencies(plays)
    /\ pc' = IF entry = "main" THEN "write" ELSE "done"
    /\ UNCHANGED <<entry, files, weeks, input_df, output_df, nfl_df, i, locals, plays,
                   output_file, yardline, zone, week>>

\* main, lines 288-299
WriteOutput ==
    /\ pc = "write"
    /\ output_file' = Some([plays |-> plays, tendencies |-> tendencies])
    /\ pc' = "done"
    /\ UNCHANGED <<entry, files, weeks, input_df, output_df, nfl_df, i, locals, plays,
                   tendencies, yardline, zone, week>>

\* get_field_zone(yardline), lines 106-115
GetFieldZone ==
    /\ pc = "zone"
    /\ zone' = get_field_zone(yardline)
    /\ pc' = "done"
    /\ UNCHANGED <<entry, files, weeks, input_df, output_df, nfl_df, i, locals, plays,
                   tendencies, output_file, yardline, week>>

\* preprocess_data.main, lines 79-85: the next week, whose input file exists
PreLoadWeek ==
    /\ pc = "pre_week"
    /\ week < MaxWeek
    /\ exists("input", week + 1)
    /\ week' = week + 1
    /\ input_df' = load_week_data(week + 1).input_df
    /\ output_df' = load_week_data(week + 1).output_df
    /\ i' = 0
    /\ pc' = "pre_loop"
    /\ UNCHANGED <<entry, files, weeks, nfl_df, locals, plays, tendencies,
                   output_file, yardline, zone>>

\* preprocess_data.main, lines 79-82: the next week, whose input file is missing
PreSkipWeek ==
    /\ pc = "pre_week"
    /\ week < MaxWeek
    /\ ~exists("input", week + 1)
    /\ week' = week + 1
    /\ input_df' = load_week_data(week + 1).input_df
    /\ output_df' = load_week_data(week + 1).output_df
    /\ UNCHANGED <<entry, pc, files, weeks, nfl_df, i, locals, plays, tendencies,
                   output_file, yardline, zone>>

\* preprocess_data.main, lines 87-90: an iteration whose process_play returns
PreProcessPlay ==
    /\ pc = "pre_loop"
    /\ i < Len(GroupKeys(input_df))
    /\ LET play_df == get_group(input_df, GroupKeys(input_df)[i + 1])
       IN  /\ ~process_play_raises(play_df)
           /\ plays' = Append(plays, process_play(play_df))
    /\ i' = i + 1
    /\ UNCHANGED <<entry, pc, files, weeks, input_df, output_df, nfl_df, locals,
                   tendencies, output_file, yardline, zone, week>>

\* preprocess_data.main, lines 87-93: an iteration whose process_play raises
PreProcessPlayRaise ==
    /\ pc = "pre_loop"
    /\ i < Len(GroupKeys(input_df))
    /\ process_play_raises(get_group(input_df, GroupKeys(input_df)[i + 1]))
    /\ i' = continue_at(i, Len(GroupKeys(input_df)))
    /\ UNCHANGED <<entry, pc, files, weeks, input_df, output_df, nfl_df, locals,
                   plays, tendencies, output_file, yardline, zone, week>>

\* preprocess_data.main, line 95: the week's groups are exhausted
PreWeekDone ==
    /\ pc = "pre_loop"
    /\ i = Len(GroupKeys(input_df))
    /\ pc' = "pre_week"
    /\ UNCHANGED <<entry, files, weeks, input_df, output_df, nfl_df, i, locals,
                   plays, tendencies, output_file, yardline, zone, week>>

\* preprocess_data.main, lines 97-112: plays.json and plays_sample.json
PreWrite ==
    /\ pc = "pre_week"
    /\ week = MaxWeek
    /\ output_file' = Some([plays |-> plays, sample |-> sample_plays(plays)])
    /\ pc' = "pre_done"
    /\ UNCHANGED <<entry, files, weeks, input_df, output_df, nfl_df, i, locals,
                   plays, tendencies, yardline, zone, week>>

Next ==
    \/ LoadBdbData
    \/ MainCount
    \/ MainCountRaise
    \/ BuildGroupby
    \/ BuildGroupbyRaise
    \/ BuildPlay
    \/ BuildRaise
    \/ BuildReturn
    \/ ComputeTendencies
    \/ WriteOutput
    \/ GetFieldZone
    \/ PreLoadWeek
    \/ PreSkipWeek
    \/ PreProcessPlay
    \/ PreProcessPlayRaise
    \/ PreWeekDone
    \/ PreWrite

Spec == Init /\ [][Next]_vars

-----------------------------------------------------------------------------
(* Properties *)

\* the play records build_play_data has emitted
Emitted ==
    IF entry \in {"main", "build_play_data"}
    THEN {plays[j] : j \in 1..Len(plays)}
    ELSE {}

RecKey(rec) == <<rec.gameId, rec.playId>>
PreRows(k) == {r \in input_df.rows : r.game_id = k[1] /\ r.play_id = k[2]}
PostRows(k) == {r \in output_df.rows : r.game_id = k[1] /\ r.play_id = k[2]}
MaxPre(k) == Max({r.frame_id : r \in PreRows(k)})
MaxPost(k) == IF PostRows(k) = {} THEN 0 ELSE Max({r.frame_id : r \in PostRows(k)})

\* C1: in every emitted play record, every player's merged frame sequence (the
\* pre-event frames, then the post-event frames shifted by the play's maximum
\* pre-event frame index) has strictly increasing frame indices f.
C1_FramesStrictlyIncreasing ==
    \A rec \in Emitted :
        \A j \in 1..Len(rec.players) :
            LET fr == rec.players[j].frames
            IN  \A n \in 1..(Len(fr) - 1) : fr[n].f < fr[n + 1].f

\* C1 witness: an emitted player has two pre-event frames followed by a post-event
\* frame, in a play where another player is absent from the post-event table.
C1_Witness ==
    \E rec \in Emitted :
        /\ \E j \in 1..Len(rec.players) :
            LET fr == rec.players[j].frames
            IN  /\ Len(fr) >= 3
                /\ fr[2].f <= rec.numInputFrames
                /\ fr[3].f > rec.numInputFrames
        /\ \E j \in 1..Len(rec.players) :
            \A n \in 1..Len(rec.players[j].frames) :
                rec.players[j].frames[n].f <= rec.numInputFrames

\* C2: in every emitted play record, numFrames is the play's maximum pre-event
\* frame index plus the maximum post-event frame index of the matching post-event
\* group (0 when none matches), numFrames = numInputFrames + numOutputFrames, and
\* numOutputFrames = 0 when no group matches.
C2_NumFrames ==
    \A rec \in Emitted :
        LET k == RecKey(rec)
        IN  /\ rec.numFrames = MaxPre(k) + MaxPost(k)
            /\ rec.numInputFrames = MaxPre(k)
            /\ rec.numFrames = rec.numInputFrames + rec.numOutputFrames
            /\ PostRows(k) = {} => rec.numOutputFrames = 0

\* C2 witness: a record with a matching post-event group whose numFrames exceeds
\* the number of frames of every one of its players.
C2_Witness ==
    \E rec \in Emitted :
        /\ PostRows(RecKey(rec)) # {}
        /\ rec.numOutputFrames > 0
        /\ \A j \in 1..Len(rec.players) : Len(rec.players[j].frames) < rec.numFrames

TargetRows(rows) == {r \in rows : r.player_role = "Targeted Receiver"}
DefenseRows(rows) == {r \in rows : r.player_side = "Defense"}
SnapRows(k) == {r \in PreRows(k) : r.frame_id = 1}
LastRows(k) == {r \in PreRows(k) : r.frame_id = MaxPre(k)}
RowsSuffice(rows) == TargetRows(rows) # {} /\ DefenseRows(rows) # {}

\* C3: in every emitted play record, coverageTightness and separation are >= 0
\* when non-null, and each is null exactly when its frame (the snap frame for
\* coverageTightness, the last pre-event frame for separation) has no
\* targeted-receiver row or no defensive-side row; a target with a defender at
\* distance 0 yields a non-null value.
C3_MetricsNullExactlyWhenRowsAbsent ==
    \A rec \in Emitted :
        LET k == RecKey(rec)
        IN  /\ rec.coverageTightness # None => Val(rec.coverageTightness) >= 0
            /\ rec.separation # None => Val(rec.separation) >= 0
            /\ rec.coverageTightness = None <=> ~RowsSuffice(SnapRows(k))
            /\ rec.separation = None <=> ~RowsSuffice(LastRows(k))

\* a direct get_field_zone call has returned
ZoneReturned == entry = "get_field_zone" /\ pc = "done"

\* C4: get_field_zone returns exactly one of the four labels: 'unknown' iff the
\* value is missing, 'redzone' iff value <= 20, 'midfield' iff 20 < value <= 50,
\* 'own_territory' iff value > 50.
C4_FieldZoneTotal ==
    ZoneReturned =>
        /\ zone \in {"unknown", "redzone", "midfield", "own_territory"}
        /\ zone = "unknown" <=> yardline = <<>>
        /\ zone = "redzone" <=> (yardline # <<>> /\ yardline[1] <= 2000)
        /\ zone = "midfield" <=>
             (yardline # <<>> /\ 2000 < yardline[1] /\ yardline[1] <= 5000)
        /\ zone = "own_territory" <=> (yardline # <<>> /\ yardline[1] > 5000)

\* C4 witness: the call on the boundary value 20 has returned 'redzone'.
C4_Witness == ZoneReturned /\ yardline = <<2000>> /\ zone = "redzone"

\* compute_tendencies has returned its result
TendenciesReturned ==
    \/ entry = "compute_tendencies" /\ pc = "done"
    \/ entry = "main" /\ pc \in {"write", "done"}

TeamCodes == {"KC", "DET", "UNK"}
RecordsOf(t) ==
    {j \in 1..Len(plays) :
        (IF "offense" \in DOMAIN plays[j] THEN plays[j].offense ELSE "UNK") = t}
PlayTypeCount(t, type) ==
    Cardinality({j \in RecordsOf(t) :
                    "playType" \in DOMAIN plays[j] /\ plays[j].playType = type})

\* C5: the result of compute_tendencies has an entry for a team code iff at
\* least 10 records carry it (records without 'offense' counting under 'UNK'),
\* and the entry's totalPlays is the team's record count.
C5_TendencyThreshold ==
    TendenciesReturned =>
        /\ DOMAIN tendencies \subseteq TeamCodes
        /\ \A t \in TeamCodes :
            /\ t \in DOMAIN tendencies <=> Cardinality(RecordsOf(t)) >= 10
            /\ t \in DOMAIN tendencies =>
                 tendencies[t].totalPlays = Cardinality(RecordsOf(t))

\* C5 witness: a team with exactly 10 records has an entry while 'UNK', counted
\* from a record without an 'offense' field, has 1 record and no entry.
C5_Witness ==
    /\ TendenciesReturned
    /\ Cardinality(RecordsOf("KC")) = 10
    /\ "KC" \in DOMAIN tendencies
    /\ \E j \in RecordsOf("UNK") : "offense" \notin DOMAIN plays[j]
    /\ "UNK" \notin DOMAIN tendencies

\* build_play_data has ended, by returning or by raising
BuildEnded ==
    \/ entry = "build_play_data" /\ pc \in {"done", "failed"}
    \/ entry = "main" /\ pc \in {"tend", "write", "done"}

PreKeys == {<<r.game_id, r.play_id>> : r \in input_df.rows}

\* C6: build_play_data emits exactly one play record per distinct (game id,
\* play id) key of the pre-event table: no two records share a key and no key is
\* dropped.
C6_OneRecordPerKey ==
    BuildEnded =>
        /\ Len(plays) = Cardinality(PreKeys)
        /\ \A k \in PreKeys : \E j \in 1..Len(plays) : RecKey(plays[j]) = k

MetaRowsOf(k) == {m \in nfl_df : m.game_id = k[1] /\ m.play_id = k[2]}

\* the metadata defaults of a record, the quarter's default being q
MetadataDefaults(q) ==
    \A rec \in Emitted :
        LET ms == MetaRowsOf(RecKey(rec))
        IN  IF ms = {}
            THEN DOMAIN rec \cap MetadataKeys = {}
            ELSE \E m \in ms :
                    /\ MetadataKeys \subseteq DOMAIN rec
                    /\ m.down = <<>> => rec.down = 0
                    /\ m.ydstogo = <<>> => rec.yardsToGo = 0
                    /\ m.yards_gained = <<>> => rec.yardsGained = 0
                    /\ m.qtr = <<>> => rec.quarter = q
                    /\ m.play_type = <<>> => rec.playType = "unknown"
                    /\ m.posteam = <<>> => rec.offense = "UNK"
                    /\ m.defteam = <<>> => rec.defense = "UNK"
                    /\ m.shotgun = <<>> => rec.shotgun = FALSE

\* C7 as stated: with a matching metadata row, a missing down, yardsToGo,
\* yardsGained or quarter becomes 0, playType 'unknown', offense and defense
\* 'UNK', shotgun False; without one, the record has no metadata key.
C7_MetadataDefaultsZero == MetadataDefaults(0)

\* C7 as amended: the same, except that a missing quarter becomes 1.
C7_MetadataDefaults == MetadataDefaults(1)

\* C7 witness: an emitted record whose metadata row misses both down and qtr.
C7_Witness ==
    \E rec \in Emitted :
        \E m \in MetaRowsOf(RecKey(rec)) :
            m.down = <<>> /\ m.qtr = <<>> /\ rec.down = 0 /\ rec.quarter = 1

\* load_bdb_data has returned
Loaded == entry \in {"main", "load_bdb_data"} /\ pc # "load"
Existing(kind) == {w \in weeks : files[<<kind, w>>] # <<>>}
ExpectedRows(kind) ==
    UNION {{r @@ [week |-> w] : r \in files[<<kind, w>>][1]} : w \in Existing(kind)}

\* C8: load_bdb_data returns the concatenation of exactly the existing files of
\* each kind, each row tagged with its week; when no requested file exists both
\* tables are empty, and the pipeline consuming them does not fail.
C8_MissingFilesTolerated ==
    Loaded =>
        /\ input_df.rows = ExpectedRows("input")
        /\ output_df.rows = ExpectedRows("output")
        /\ (Existing("input") = {} /\ Existing("output") = {}) =>
             /\ input_df.rows = {}
             /\ output_df.rows = {}
             /\ pc # "failed"

Rate(n, d) == [num |-> n, den |-> d]

\* C9: for every retained team, passRate is the number of its 'pass' records
\* over all its records and runRate the number of its 'run' records over all its
\* records; so passRate + runRate <= 1, with equality iff every record of the
\* team is a pass or a run.
C9_RatesOverTotal ==
    TendenciesReturned =>
        \A t \in DOMAIN tendencies :
            LET total == Cardinality(RecordsOf(t))
                p == tendencies[t].passRate
                r == tendencies[t].runRate
            IN  /\ p = Rate(PlayTypeCount(t, "pass"), total)
                /\ r = Rate(PlayTypeCount(t, "run"), total)
                /\ p.num * r.den + r.num * p.den <= p.den * r.den
                /\ p.num * r.den + r.num * p.den = p.den * r.den
                     <=> \A j \in RecordsOf(t) :
                            /\ "playType" \in DOMAIN plays[j]
                            /\ plays[j].playType \in {"pass", "run"}

\* C9 witness: a retained team with pass, run and other records, whose rates sum
\* to less than 1.
C9_Witness ==
    /\ TendenciesReturned
    /\ "KC" \in DOMAIN tendencies
    /\ PlayTypeCount("KC", "pass") > 0
    /\ PlayTypeCount("KC", "run") > 0
    /\ PlayTypeCount("KC", "punt") > 0
    /\ tendencies["KC"].passRate.num + tendencies["KC"].runRate.num
         < tendencies["KC"].passRate.den

\* an iteration of build_play_data has computed the metrics of play locals.key
Iterated == entry \in {"main", "build_play_data"} /\ locals.key # <<0, 0>>

SqDist(a, b) == (a.x - b.x) * (a.x - b.x) + (a.y - b.y) * (a.y - b.y)
FirstTarget(rows) ==
    CHOOSE a \in TargetRows(rows) : \A b \in TargetRows(rows) : a.nfl_id <= b.nfl_id
Nearest(rows) ==
    CHOOSE d \in {SqDist(r, FirstTarget(rows)) : r \in DefenseRows(rows)} :
        \A r \in DefenseRows(rows) : d <= SqDist(r, FirstTarget(rows))

\* C10 as stated: the metric is null whenever its frame holds more than one
\* 'Targeted Receiver' row, as when it holds none.
C10_NullOnSeveralTargets ==
    Iterated =>
        /\ Cardinality(TargetRows(SnapRows(locals.key))) # 1
             => locals.coverage_tightness = None
        /\ Cardinality(TargetRows(LastRows(locals.key))) # 1
             => locals.separation = None

\* the metric m of a frame's rows, as computed when there is not exactly one
\* 'Targeted Receiver' row
SeveralTargetsMetric(rows, m) ==
    /\ TargetRows(rows) = {} => m = None
    /\ Cardinality(TargetRows(rows)) > 1 =>
         IF DefenseRows(rows) = {} THEN m = None ELSE m = <<Nearest(rows)>>

\* C10 as amended: the metric is null when its frame holds no 'Targeted
\* Receiver' row; when it holds more than one, no error is raised and the metric
\* is measured from the first such row in table order: null only if the frame has
\* no defensive-side row, else the distance to the defender nearest that row.
C10_FirstOfSeveralTargets ==
    Iterated =>
        /\ SeveralTargetsMetric(SnapRows(locals.key), locals.coverage_tightness)
        /\ SeveralTargetsMetric(LastRows(locals.key), locals.separation)

\* C10 witness: the snap frame holds two 'Targeted Receiver' rows at different
\* distances from the defender, and the metric is the first one's distance.
C10_Witness ==
    /\ Iterated
    /\ LET rows == SnapRows(locals.key)
       IN  /\ Cardinality(TargetRows(rows)) = 2
           /\ DefenseRows(rows) # {}
           /\ \E a \in TargetRows(rows) : \E d \in DefenseRows(rows) :
                SqDist(a, d) < Nearest(rows)
           /\ locals.coverage_tightness = <<Nearest(rows)>>

MinPre(k) == Min({r.frame_id : r \in PreRows(k)})
FirstRows(k) == {r \in PreRows(k) : r.frame_id = MinPre(k)}

\* the distance (squared) from the first target row of a frame's rows to the
\* defender nearest it, missing without a target row or a defender row
NearestDefender(rows) == IF RowsSuffice(rows) THEN <<Nearest(rows)>> ELSE <<>>

\* C11 as stated: coverage tightness is the minimum distance from the target to
\* any defender in the rows of the play's first (minimum) pre-event frame index,
\* separation the same in the rows of its last (maximum) pre-event frame index,
\* also for a play whose frame indices do not start at 1.
C11_MetricsAtFirstAndLastFrame ==
    (Iterated /\ pc # "failed") =>
        /\ locals.coverage_tightness = NearestDefender(FirstRows(locals.key))
        /\ locals.separation = NearestDefender(LastRows(locals.key))

\* C11 as amended: coverage tightness is that minimum distance in the rows whose
\* frame index is 1 (missing for a play that has no such row), separation in the
\* rows of the play's last (maximum) pre-event frame index.
C11_MetricsAtFrameOneAndLast ==
    Iterated =>
        /\ locals.coverage_tightness = NearestDefender(SnapRows(locals.key))
        /\ locals.separation = NearestDefender(LastRows(locals.key))

\* C11 witness: frame 1 holds the target at (0, 0) and defenders at distances 3.0
\* and 5.5, the last frame defenders at 5.5 only; coverage tightness is 3.0 and
\* separation 5.5, in the record as well.
C11_Witness ==
    /\ Iterated
    /\ LET rows == SnapRows(locals.key)
       IN  /\ \E t \in TargetRows(rows) : t.x = 0 /\ t.y = 0
           /\ {SqDist(d, FirstTarget(rows)) : d \in DefenseRows(rows)}
                = {300 * 300, 550 * 550}
    /\ locals.coverage_tightness = <<300 * 300>>
    /\ locals.separation = <<550 * 550>>
    /\ \E rec \in Emitted :
        /\ RecKey(rec) = locals.key
        /\ rec.coverageTightness = <<30>>
        /\ rec.separation = <<55>>

PlayerPreIds(k, p) == {r.frame_id : r \in {q \in PreRows(k) : q.nfl_id = p}}
PlayerPostIds(k, p) == {r.frame_id : r \in {q \in PostRows(k) : q.nfl_id = p}}

\* C12 as stated: for every emitted player with both pre-event and post-event
\* frames (the post-event indices starting at 1), the first post-event frame's
\* shifted index is exactly one more than the player's last pre-event index, also
\* when that index is lower than the play's maximum pre-event index; a player
\* with pre-event frames only has exactly those.
C12_GapFreeTimeline ==
    \A rec \in Emitted :
        \A j \in 1..Len(rec.players) :
            LET fr == rec.players[j].frames
                pre == PlayerPreIds(RecKey(rec), rec.players[j].nflId)
                post == PlayerPostIds(RecKey(rec), rec.players[j].nflId)
                np == Cardinality(pre)
            IN  IF post = {}
                THEN {fr[n].f : n \in 1..Len(fr)} = pre /\ Len(fr) = np
                ELSE Min(post) = 1 => (Len(fr) > np /\ fr[np + 1].f = fr[np].f + 1)

\* C12 as amended: every emitted player's sequence is the player's pre-event
\* frames followed by the player's post-event frames of the matching group, each
\* post-event index shifted by the play's maximum pre-event index; the first
\* shifted index is one more than the player's last pre-event index exactly when
\* that index is the play's maximum and the player's post-event indices start at
\* 1; a player with pre-event frames only has exactly those.
C12_ShiftedByPlayMaximum ==
    \A rec \in Emitted :
        \A j \in 1..Len(rec.players) :
            LET k == RecKey(rec)
                fr == rec.players[j].frames
                pre == PlayerPreIds(k, rec.players[j].nflId)
                post == PlayerPostIds(k, rec.players[j].nflId)
                np == Cardinality(pre)
            IN  /\ Len(fr) = np + Cardinality(post)
                /\ {fr[n].f : n \in 1..np} = pre
                /\ {fr[n].f : n \in (np + 1)..Len(fr)} = {f + MaxPre(k) : f \in post}
                /\ post # {} =>
                     /\ fr[np + 1].f = MaxPre(k) + Min(post)
                     /\ fr[np + 1].f = fr[np].f + 1
                          <=> (Max(pre) = MaxPre(k) /\ Min(post) = 1)

\* C12 witness: in one record, a player whose pre-event frames reach the play's
\* maximum continues without a gap, a player whose last pre-event index is lower
\* has a gap before the first post-event frame, and both have post-event frames.
C12_Witness ==
    \E rec \in Emitted :
        /\ \E j \in 1..Len(rec.players) :
            LET fr == rec.players[j].frames
                np == Cardinality(PlayerPreIds(RecKey(rec), rec.players[j].nflId))
            IN  Len(fr) > np /\ fr[np + 1].f = fr[np].f + 1
        /\ \E j \in 1..Len(rec.players) :
            LET fr == rec.players[j].frames
                np == Cardinality(PlayerPreIds(RecKey(rec), rec.players[j].nflId))
            IN  /\ Len(fr) > np
                /\ fr[np].f < rec.numInputFrames
                /\ fr[np + 1].f > fr[np].f + 1

\* the field position of play k is missing in the pre-event table
YardlineMissing(k) == \A r \in PreRows(k) : r.absolute_yardline_number = <<>>

\* C13: a play whose pre-event field position is missing is still emitted by
\* build_play_data, with fieldZone 'unknown', and no error is raised.
C13_MissingYardlineEmitted ==
    (Iterated /\ YardlineMissing(locals.key)) =>
        /\ pc # "failed"
        /\ \E rec \in Emitted : RecKey(rec) = locals.key /\ rec.fieldZone = "unknown"

\* the records of team t whose coverageTightness is neither null nor zero
CoveredOf(t) ==
    {j \in RecordsOf(t) :
        /\ "coverageTightness" \in DOMAIN plays[j]
        /\ plays[j].coverageTightness # <<>>
        /\ plays[j].coverageTightness[1] # 0}

RECURSIVE CoverageSum(_)
CoverageSum(S) ==
    IF S = {} THEN 0
    ELSE LET j == CHOOSE n \in S : TRUE
         IN  plays[j].coverageTightness[1] + CoverageSum(S \ {j})

\* C14: for every retained team, avgCoverage is the sum of coverageTightness
\* over exactly the team's records whose coverageTightness is neither null nor
\* zero, divided by the number of those records; null and zero records count in
\* neither numerator nor denominator; with no such record avgCoverage is 0 (the
\* quotient 0 / 1, no division by zero).
C14_AvgCoverageOverCovered ==
    TendenciesReturned =>
        \A t \in DOMAIN tendencies :
            LET avg == tendencies[t].avgCoverage
                n == Cardinality(CoveredOf(t))
            IN  /\ avg.num = CoverageSum(CoveredOf(t))
                /\ avg.den > 0
                /\ n > 0 => avg.den = n
                /\ n = 0 => (avg.num = 0 /\ avg.den = 1)

\* C14 witness: a retained team with records of non-zero, null and zero
\* coverage, whose average is taken over fewer records than the team has.
C14_Witness ==
    /\ TendenciesReturned
    /\ "KC" \in DOMAIN tendencies
    /\ \E j \in RecordsOf("KC") : plays[j].coverageTightness = <<>>
    /\ \E j \in RecordsOf("KC") : plays[j].coverageTightness = <<0>>
    /\ Cardinality(CoveredOf("KC")) >= 2
    /\ tendencies["KC"].avgCoverage.den = Cardinality(CoveredOf("KC"))
    /\ tendencies["KC"].avgCoverage.den < tendencies["KC"].totalPlays
    /\ tendencies["KC"].avgCoverage.num = 31 * Cardinality(CoveredOf("KC"))

\* the empty case: a retained team none of whose records has a usable coverage
\* value
NoCoverageTeam ==
    /\ TendenciesReturned
    /\ \E t \in DOMAIN tendencies : CoveredOf(t) = {}

\* the sampling pipeline is running or has ended
Sampling == entry = "preprocess_data.main"

\* the rows and play keys of week w's input file
SampleRows(w) ==
    IF files[<<"input", w>>] = <<>> THEN {} ELSE files[<<"input", w>>][1]
SampleKeys(w) == {<<r.game_id, r.play_id>> : r \in SampleRows(w)}

\* the position of key k in the iteration over week w's plays
SamplePosition(w, k) ==
    Cardinality({c \in SampleKeys(w) : c[1] < k[1] \/ (c[1] = k[1] /\ c[2] <= k[2])})

\* process_play raises on play k of week w: its rows carry no field position or
\* no num_frames_output
SampleFails(w, k) ==
    \E r \in SampleRows(w) :
        /\ <<r.game_id, r.play_id>> = k
        /\ (r.absolute_yardline_number = <<>> \/ r.num_frames_output = <<>>)

\* the plays main has iterated over so far, as <<week, key>>
SampleIterated ==
    {e \in UNION {{<<w, k>> : k \in SampleKeys(w)} : w \in 1..week} :
        \/ e[1] < week
        \/ pc \in {"pre_week", "pre_done"}
        \/ SamplePosition(e[1], e[2]) <= i}

\* the output list names key k at index j
SampleAt(j, k) == plays[j].gameId = k[1] /\ plays[j].playId = k[2]

\* C15: when process_play raises on some play, only that play is skipped: the
\* output list is exactly the iterated plays on which it did not raise, each
\* once, in iteration order (weeks ascending, keys ascending within a week; the
\* game ids of a later week are larger); so after the last week every play of
\* every week on which it does not raise is in the list, and the list is what
\* is written.
C15_OnlyRaisingPlaySkipped ==
    Sampling =>
        LET kept == {e \in SampleIterated : ~SampleFails(e[1], e[2])}
        IN  /\ Len(plays) = Cardinality(kept)
            /\ \A e \in kept : \E j \in 1..Len(plays) : SampleAt(j, e[2])
            /\ \A e \in SampleIterated :
                  SampleFails(e[1], e[2]) =>
                      ~\E j \in 1..Len(plays) : SampleAt(j, e[2])
            /\ \A j \in 1..Len(plays), n \in 1..Len(plays) :
                  j < n =>
                      \/ plays[j].gameId < plays[n].gameId
                      \/ /\ plays[j].gameId = plays[n].gameId
                         /\ plays[j].playId < plays[n].playId
            /\ pc = "pre_done" =>
                  /\ week = MaxWeek
                  /\ output_file # <<>>
                  /\ output_file[1].plays = plays

\* C15 witness: the run has ended; process_play raised on the first play of
\* week 1 and on the second play of week 2, and the list holds exactly the
\* second play of week 1 and the first play of week 2, in that order.
C15_Witness ==
    /\ Sampling
    /\ pc = "pre_done"
    /\ SampleKeys(1) = {<<1, 1>>, <<1, 2>>}
    /\ SampleKeys(2) = {<<2, 1>>, <<2, 2>>}
    /\ SampleFails(1, <<1, 1>>)
    /\ ~SampleFails(1, <<1, 2>>)
    /\ ~SampleFails(2, <<2, 1>>)
    /\ SampleFails(2, <<2, 2>>)
    /\ Len(plays) = 2
    /\ SampleAt(1, <<1, 2>>)
    /\ SampleAt(2, <<2, 1>>)

====
